---- MODULE Spec2Model ----
(***************************************************************************)
(* KM2 Image Studio (image_studio_app_v3.py): the naming engine, the       *)
(* single-item processor process_one and the queue handlers of AppBase     *)
(* (_add_paths, _clear_queue, _process_queue), as a state machine.         *)
(*                                                                         *)
(* Text is a sequence of one-character strings, so that lower-casing,      *)
(* filtering, replacing and stripping are computed as the code computes    *)
(* them.  A path is a record [dir, base, ext, alt]: alt = TRUE is a second *)
(* spelling (such as "in/./a.jpg") of the same absolute path.              *)
(***************************************************************************)
EXTENDS Integers, Sequences, FiniteSets, TLC

VARIABLES
  file_list,   \* self.file_list: the pending queue
  pc,          \* position of _process_queue: "idle", "running", "done", "aborted"
  gui,         \* the tk variables the settings panel holds
  cfg,         \* the Config of the run (built once per run)
  runQueue,    \* list(self.file_list), the snapshot the loop iterates
  idx,         \* number of loop iterations completed
  ok,          \* the success counter of the run
  manifest,    \* the CSV manifest of the run: header and data rows
  log,         \* the lines _log wrote since the run was requested
  calls,       \* history: the calls of process_one made by the run
  files,       \* file system: content of every file, "none" when absent
  dirs,        \* file system: the directories that exist
  outfiles,    \* the output folder: files written, with the item that wrote them
  now,         \* the local clock, in seconds
  have_rembg,  \* _HAVE_REMBG
  config,      \* the module-level config: enable_ai_filenames, brand_keywords
  dialog,      \* the message box shown last ("none" before the first)
  ops,         \* number of user operations so far
  slugFn,      \* slug check: the function applied ("none" before)
  slugIn,      \* slug check: the input text
  slugOut      \* slug check: the results of applying it once, twice

vars == <<file_list, pc, gui, cfg, runQueue, idx, ok, manifest, log, calls,
          files, dirs, outfiles, now, have_rembg, config, dialog, ops,
          slugFn, slugIn, slugOut>>

(***************************************************************************)
(* Bounds of the model.                                                    *)
(***************************************************************************)
MaxQueue == 3
MaxOps == 3
MaxLen == 5
MaxTicks == 2
MaxProduct == 2

(***************************************************************************)
(* Text helpers (Python str methods used by the code).                     *)
(***************************************************************************)
UpperLetters ==
  <<"A", "B", "C", "D", "E", "F", "G", "H", "I", "J", "K", "L", "M",
    "N", "O", "P", "Q", "R", "S", "T", "U", "V", "W", "X", "Y", "Z">>

LowerLetters ==
  <<"a", "b", "c", "d", "e", "f", "g", "h", "i", "j", "k", "l", "m",
    "n", "o", "p", "q", "r", "s", "t", "u", "v", "w", "x", "y", "z">>

\* str.lower(), per character
LowerChar(ch) ==
  IF \E k \in 1..Len(UpperLetters) : UpperLetters[k] = ch
  THEN LowerLetters[CHOOSE k \in 1..Len(UpperLetters) : UpperLetters[k] = ch]
  ELSE ch

Lower(s) == [k \in 1..Len(s) |-> LowerChar(s[k])]

\* a-z0-9
LowerAlnum ==
  {"a", "b", "c", "d", "e", "f", "g", "h", "i", "j", "k", "l", "m", "n", "o", "p",
   "q", "r", "s", "t", "u", "v", "w", "x", "y", "z",
   "0", "1", "2", "3", "4", "5", "6", "7", "8", "9"}

\* "".join(ch for ch in s if ch in keep)
RECURSIVE FilterChars(_, _)
FilterChars(s, keep) ==
  IF s = <<>> THEN <<>>
  ELSE IF Head(s) \in keep THEN <<Head(s)>> \o FilterChars(Tail(s), keep)
       ELSE FilterChars(Tail(s), keep)

\* s.replace(" ", "-")
ReplaceSpaces(s) == [k \in 1..Len(s) |-> IF s[k] = " " THEN "-" ELSE s[k]]

\* "--" in s
HasDoubleHyphen(s) == \E k \in 1..(Len(s) - 1) : s[k] = "-" /\ s[k + 1] = "-"

\* s.replace("--", "-"): one left-to-right pass over non-overlapping matches
RECURSIVE ReplaceDoubleOnce(_)
ReplaceDoubleOnce(s) ==
  IF Len(s) < 2 THEN s
  ELSE IF s[1] = "-" /\ s[2] = "-"
       THEN <<"-">> \o ReplaceDoubleOnce(SubSeq(s, 3, Len(s)))
       ELSE <<s[1]>> \o ReplaceDoubleOnce(Tail(s))

\* while "--" in s: s = s.replace("--", "-")
RECURSIVE CollapseHyphens(_)
CollapseHyphensOnePass(s) == ReplaceDoubleOnce(s)
CollapseHyphens(s) ==
  IF HasDoubleHyphen(s) THEN CollapseHyphens(ReplaceDoubleOnce(s)) ELSE s

\* s.strip("-")
RECURSIVE LStripHyphen(_)
LStripHyphen(s) ==
  IF s # <<>> /\ Head(s) = "-" THEN LStripHyphen(Tail(s)) ELSE s

RECURSIVE RStripHyphen(_)
RStripHyphen(s) ==
  IF s # <<>> /\ s[Len(s)] = "-" THEN RStripHyphen(SubSeq(s, 1, Len(s) - 1)) ELSE s

StripHyphen(s) == RStripHyphen(LStripHyphen(s))

\* sep.join(parts)
RECURSIVE Join(_, _)
Join(parts, sep) ==
  IF parts = <<>> THEN <<>>
  ELSE IF Len(parts) = 1 THEN parts[1]
       ELSE parts[1] \o sep \o Join(Tail(parts), sep)

(***************************************************************************)
(* Slugification.                                                          *)
(***************************************************************************)
SlugKeep == LowerAlnum \cup {"-", "_"}

ImageWord == <<"i", "m", "a", "g", "e">>

\* sanitize_slug without the filter on the characters kept
sanitize_slug_unfiltered(s) ==
  LET stripped == StripHyphen(CollapseHyphens(ReplaceSpaces(Lower(s))))
  IN IF stripped = <<>> THEN ImageWord ELSE stripped

\* sanitize_slug
sanitize_slug(s) ==
  LET lowered == ReplaceSpaces(Lower(s))
      kept == FilterChars(lowered, SlugKeep)
      stripped == StripHyphen(CollapseHyphens(kept))
  IN IF stripped = <<>> THEN ImageWord ELSE stripped

\* re.sub(r"[^a-z0-9]+", "-", text): every maximal run of other characters
\* becomes one hyphen
RECURSIVE SubNonAlnumRuns(_)
SubNonAlnumRuns(s) ==
  IF s = <<>> THEN <<>>
  ELSE IF Head(s) \in LowerAlnum THEN <<Head(s)>> \o SubNonAlnumRuns(Tail(s))
       ELSE IF Len(s) >= 2 /\ s[2] \notin LowerAlnum THEN SubNonAlnumRuns(Tail(s))
            ELSE <<"-">> \o SubNonAlnumRuns(Tail(s))

\* re.sub(r"-{2,}", "-", text): every maximal run of hyphens becomes one hyphen
RECURSIVE SubHyphenRuns(_)
SubHyphenRuns(s) ==
  IF Len(s) < 2 THEN s
  ELSE IF s[1] = "-" /\ s[2] = "-" THEN SubHyphenRuns(Tail(s))
       ELSE <<s[1]>> \o SubHyphenRuns(Tail(s))

\* _seo_slug
seo_slug(text) == SubHyphenRuns(StripHyphen(SubNonAlnumRuns(Lower(text))))

(***************************************************************************)
(* Naming engine.                                                          *)
(***************************************************************************)
DigitChars == <<"0", "1", "2", "3", "4", "5", "6", "7", "8", "9">>

\* %H, %M, %S: two digits, zero padded
TwoDigits(n) == <<DigitChars[(n \div 10) + 1], DigitChars[(n % 10) + 1]>>

\* %Y%m%d of the day the session runs on (the docstring's example date)
DateChars == <<"2", "0", "2", "5", "1", "0", "3", "0">>

HourOf(t) == (t \div 3600) % 24
MinuteOf(t) == (t \div 60) % 60
SecondOf(t) == t % 60

\* timestamp_str with the seconds left out
timestamp_str_minutes(t) ==
  DateChars \o <<"-">> \o TwoDigits(HourOf(t)) \o TwoDigits(MinuteOf(t))

\* timestamp_str: strftime("%Y%m%d-%H%M%S") of the clock reading t
timestamp_str(t) ==
  DateChars \o <<"-">> \o TwoDigits(HourOf(t)) \o TwoDigits(MinuteOf(t))
            \o TwoDigits(SecondOf(t))

\* strftime("%Y%m%d-%H%M") in ai_build_filename
ai_stamp(t) ==
  DateChars \o <<"-">> \o TwoDigits(HourOf(t)) \o TwoDigits(MinuteOf(t))

\* A template is a sequence of tokens: a replacement field or a literal
\* character.  "{sku}" stands for a field str.format has no argument for.
UnknownField == "{sku}"

DefaultTemplate == <<"{product}", "-", "{colors}", "-", "{timestamp}">>

\* str.format raises KeyError for a field without argument
FormatRaises(tmpl) == \E k \in 1..Len(tmpl) : tmpl[k] = UnknownField

\* tmpl.format(product=p, colors=c, timestamp=t)
RECURSIVE Format(_, _, _, _)
Format(tmpl, p, c, t) ==
  IF tmpl = <<>> THEN <<>>
  ELSE (CASE Head(tmpl) = "{product}" -> p
          [] Head(tmpl) = "{colors}" -> c
          [] Head(tmpl) = "{timestamp}" -> t
          [] OTHER -> <<Head(tmpl)>>) \o Format(Tail(tmpl), p, c, t)

\* build_filename, with the clock reading t
build_filename(tmpl, product, colors, t) ==
  Format(tmpl, sanitize_slug(product), Join(colors, <<"-">>), timestamp_str(t))

\* k.strip() is empty
IsBlank(k) == \A j \in 1..Len(k) : k[j] = " "

\* list(dict.fromkeys(kw)): first occurrences, order kept
RECURSIVE Dedup(_)
Dedup(s) ==
  IF s = <<>> THEN <<>>
  ELSE LET front == Dedup(SubSeq(s, 1, Len(s) - 1))
           last == s[Len(s)]
       IN IF \E j \in 1..Len(front) : front[j] = last THEN front
          ELSE Append(front, last)

\* [p for p in parts if p]
RECURSIVE NonEmpty(_)
NonEmpty(parts) ==
  IF parts = <<>> THEN <<>>
  ELSE IF Head(parts) = <<>> THEN NonEmpty(Tail(parts))
       ELSE <<Head(parts)>> \o NonEmpty(Tail(parts))

\* [_seo_slug(k) for k in brand_keywords if k.strip()]
RECURSIVE KeywordSlugs(_)
KeywordSlugs(kws) ==
  IF kws = <<>> THEN <<>>
  ELSE IF IsBlank(Head(kws)) THEN KeywordSlugs(Tail(kws))
       ELSE <<seo_slug(Head(kws))>> \o KeywordSlugs(Tail(kws))

KeywordCap == 4

HatWord == <<"h", "a", "t">>

\* ai_build_filename, with the clock reading t
ai_build_filename(product_type, colors, brand_keywords, t) ==
  LET deduped == Dedup(KeywordSlugs(brand_keywords))
      kw == SubSeq(deduped, 1, IF Len(deduped) < KeywordCap THEN Len(deduped) ELSE KeywordCap)
      color_part == IF colors = <<>> THEN <<>>
                    ELSE seo_slug(Join(NonEmpty(colors), <<"-">>))
      prod_part == seo_slug(IF product_type = <<>> THEN HatWord ELSE product_type)
      parts == IF color_part # <<>> THEN kw \o <<prod_part>> \o <<color_part>>
               ELSE kw \o <<prod_part>>
      base == Join(NonEmpty(parts), <<"-">>)
  IN IF base # <<>> THEN base \o <<"-">> \o ai_stamp(t) ELSE ai_stamp(t)

(***************************************************************************)
(* Paths and the file system.                                              *)
(***************************************************************************)
InDir == <<"in">>
FinDir == <<"fin">>
NewDir == <<"new">>
OutDir == <<"out">>
ArtDir == <<"art">>
NoDir == <<>>

\* a folder as the user names it: alt = TRUE is a second spelling of it
Folder(d, a) == [dir |-> d, alt |-> a]

FilePath(d, b, e, a) == [dir |-> d, base |-> b, ext |-> e, alt |-> a]

\* os.path.basename
basename(p) == [base |-> p.base, ext |-> p.ext]

\* os.path.dirname
dirname(p) == [dir |-> p.dir, alt |-> p.alt]

\* os.path.join(folder, name)
join(folder, name) ==
  [dir |-> folder.dir, base |-> name.base, ext |-> name.ext, alt |-> folder.alt]

\* os.path.join(folder, "Finished_Originals")
joinDir(folder, sub) == [dir |-> Append(folder.dir, sub), alt |-> folder.alt]

\* os.path.abspath compared on the raw spelling
abspath_raw(p) == p

\* os.path.abspath: one normal form per spelling
abspath(p) == [p EXCEPT !.alt = FALSE]

\* the file a path denotes
FileKey(p) == [dir |-> p.dir, base |-> p.base, ext |-> p.ext]

ContentAt(fs, p) == IF FileKey(p) \in DOMAIN fs THEN fs[FileKey(p)] ELSE "none"

\* os.path.isfile
isfile(fs, p) == FileKey(p) \in DOMAIN fs

\* the empty path text
NoPath == [dir |-> NoDir, base |-> "", ext |-> "", alt |-> FALSE]

\* os.path.isdir
isdir(ds, folder) == folder.dir # NoDir /\ folder.dir \in ds

ImageContents == {"img1", "img2", "img3"}

\* exts in _add_paths
exts == {"png", "jpg", "jpeg", "webp"}

\* the files of the session's folders before the first operation
InitialFiles ==
  (FileKey(FilePath(InDir, "a", "jpg", FALSE)) :> "img1")
  @@ (FileKey(FilePath(InDir, "b", "jpg", FALSE)) :> "img2")
  @@ (FileKey(FilePath(InDir, "c", "jpg", FALSE)) :> "bad")
  @@ (FileKey(FilePath(InDir, "n", "txt", FALSE)) :> "text")
  @@ (FileKey(FilePath(FinDir, "a", "jpg", FALSE)) :> "img3")
  @@ (FileKey(FilePath(ArtDir, "logo", "png", FALSE)) :> "logo")
  @@ (FileKey(FilePath(ArtDir, "bad", "png", FALSE)) :> "badlogo")

InitialDirs == {InDir, FinDir, OutDir, ArtDir}

\* what the user can pick in the file dialog or drop on the window
PickablePaths ==
  { FilePath(InDir, "a", "jpg", FALSE), FilePath(InDir, "a", "jpg", TRUE),
    FilePath(InDir, "b", "jpg", FALSE), FilePath(InDir, "c", "jpg", FALSE),
    FilePath(InDir, "n", "txt", FALSE), FilePath(FinDir, "a", "jpg", TRUE) }

PickableFolders == { Folder(InDir, FALSE) }

(***************************************************************************)
(* Queue handlers: _add_paths, _clear_queue.                               *)
(***************************************************************************)
InList(p, list) == \E k \in 1..Len(list) : list[k] = p

\* the else branch of _add_paths for one path p
AddFile(list, p) ==
  IF p.ext \in exts /\ ~InList(p, list) THEN Append(list, p) ELSE list

\* the loop of _add_paths over file paths
RECURSIVE AddFiles(_, _)
AddFiles(list, paths) ==
  IF paths = <<>> THEN list
  ELSE AddFiles(AddFile(list, Head(paths)), Tail(paths))

\* os.listdir(folder) joined to the folder, as a set
Listing(fs, folder) ==
  { join(folder, [base |-> k.base, ext |-> k.ext]) : k \in {f \in DOMAIN fs : f.dir = folder.dir} }

\* the orders os.listdir may return the entries in
RECURSIVE Orders(_)
Orders(S) ==
  IF S = {} THEN {<<>>}
  ELSE UNION { { <<x>> \o rest : rest \in Orders(S \ {x}) } : x \in S }

\* _add_paths([p]) for a file path p
AddFilePath(p) ==
  /\ pc # "running"
  /\ ops < MaxOps
  /\ Len(AddFile(file_list, p)) <= MaxQueue
  /\ file_list' = AddFile(file_list, p)
  /\ ops' = ops + 1
  /\ UNCHANGED <<pc, gui, cfg, runQueue, idx, ok, manifest, log, calls, files,
                 dirs, outfiles, now, have_rembg, config, dialog,
                 slugFn, slugIn, slugOut>>

\* _add_paths([d]) for a folder d: the isdir branch
AddFolder(d) ==
  /\ pc # "running"
  /\ ops < MaxOps
  /\ isdir(dirs, d)
  /\ \E order \in Orders(Listing(files, d)) :
       /\ Len(AddFiles(file_list, order)) <= MaxQueue
       /\ file_list' = AddFiles(file_list, order)
  /\ ops' = ops + 1
  /\ UNCHANGED <<pc, gui, cfg, runQueue, idx, ok, manifest, log, calls, files,
                 dirs, outfiles, now, have_rembg, config, dialog,
                 slugFn, slugIn, slugOut>>

\* _clear_queue, from the Clear Queue button
ClearQueue ==
  /\ pc # "running"
  /\ ops < MaxOps
  /\ file_list' = <<>>
  /\ ops' = ops + 1
  /\ UNCHANGED <<pc, gui, cfg, runQueue, idx, ok, manifest, log, calls, files,
                 dirs, outfiles, now, have_rembg, config, dialog,
                 slugFn, slugIn, slugOut>>

(***************************************************************************)
(* process_one.                                                            *)
(***************************************************************************)
Red == <<"r", "e", "d">>
Tan == <<"t", "a", "n">>

\* get_dominant_colors(subject): a deterministic function of the pixels of the
\* subject, which are those of the file, or of the file with its background
\* removed
get_dominant_colors(content, bg_removed) ==
  CASE content = "img1" -> <<Red>>
    [] content = "img2" -> IF bg_removed THEN <<Tan>> ELSE <<Red, Tan>>
    [] content = "img3" -> <<Red>>
    [] OTHER -> << <<"u", "n", "k", "n", "o", "w", "n">> >>

\* the pixel sizes <<width, height>> of the images of the session's folders
ImageSize(content) ==
  CASE content = "img1" -> <<40, 30>>
    [] content = "img2" -> <<7, 25>>
    [] content = "img3" -> <<5, 5>>
    [] content = "logo" -> <<10, 5>>
    [] OTHER -> <<0, 0>>

Abs(n) == IF n < 0 THEN 0 - n ELSE n

\* math.ceil(a / b), for a >= 0 and b > 0
CeilDiv(a, b) == IF a % b = 0 THEN a \div b ELSE (a \div b) + 1

AtLeastOne(n) == IF n < 1 THEN 1 ELSE n

\* Image.thumbnail, round_aspect for the width: of floor and ceil of y*w/h the
\* one whose aspect is nearer to w/h (the floor on a tie), at least 1
RoundWidth(w, h, y) ==
  LET f == (y * w) \div h
      c == CeilDiv(y * w, h)
  IN AtLeastOne(IF Abs(w * y - f * h) <= Abs(w * y - c * h) THEN f ELSE c)

\* Image.thumbnail, round_aspect for the height: the key of 0 is 0
RoundHeight(w, h, x) ==
  LET f == (x * h) \div w
      c == CeilDiv(x * h, w)
  IN AtLeastOne(IF f = 0 THEN 0
                ELSE IF Abs(w * f - x * h) * c <= Abs(w * c - x * h) * f THEN f
                     ELSE c)

\* Image.thumbnail raises: a box of height 0 (division by zero) or of a width
\* below 1 (resize to an empty size)
ThumbnailRaises(size, max_w, max_h) ==
  ~(max_w >= size[1] /\ max_h >= size[2]) /\ (max_w < 1 \/ max_h = 0)

\* fit_within: img.thumbnail((max_w, max_h)), the size of the result; an image
\* that fits the box keeps its size, it is never enlarged
fit_within(size, max_w, max_h) ==
  IF max_w >= size[1] /\ max_h >= size[2] THEN size
  ELSE IF max_h > 0 /\ max_w * size[2] >= size[1] * max_h
       THEN <<RoundWidth(size[1], size[2], max_h), max_h>>
       ELSE <<max_w, RoundHeight(size[1], size[2], max_w)>>

\* a layer composited on the canvas: where its top left corner is, its size
Layer(x, y, size) == [x |-> x, y |-> y, w |-> size[1], h |-> size[2]]

NoLayer == [x |-> 0, y |-> 0, w |-> 0, h |-> 0]

NoLogo == [x |-> 0, y |-> 0, w |-> 0, h |-> 0, opacity |-> 0]

NoCanvas == [w |-> 0, h |-> 0]

\* int(sy*0.08), line 223
ShadowDrop(sy) == (sy * 8) \div 100

\* lines 222, 227: the left edge of the layers
LayerLeft(c, sx) == (c.target_w - sx) \div 2

\* lines 223, 228: the top edge of the layers
LayerTop(c, sy) ==
  IF c.add_shadow THEN (c.target_h - sy) \div 2 + ShadowDrop(sy)
  ELSE (c.target_h - sy) \div 2

\* lines 211-229: the canvas with the shadow and the subject composited, both
\* at (cx, cy); alpha_composite clips what lies outside the canvas
compose(c, size) ==
  LET avail_w == c.target_w - c.margin * 2
      avail_h == c.target_h - c.margin * 2
      fitted == fit_within(size, avail_w, avail_h)
      cx == LayerLeft(c, fitted[1])
      cy == LayerTop(c, fitted[2])
  IN [w |-> c.target_w, h |-> c.target_h,
      subject |-> Layer(cx, cy, fitted),
      shadow |-> IF c.add_shadow THEN Layer(cx, cy, fitted) ELSE NoLayer,
      logo |-> NoLogo]

\* line 231: the watermark block is entered
WatermarkEntered(c, fs) == c.add_watermark /\ c.wm_path # NoPath /\ isfile(fs, c.wm_path)

\* lines 233-243 raise: Image.open of a file that is no image, resize to an
\* empty size
WatermarkRaises(c, fs) ==
  LET size == ImageSize(ContentAt(fs, c.wm_path))
      target_w == (c.target_w * c.wm_scale) \div 100
  IN \/ ContentAt(fs, c.wm_path) # "logo"
     \/ target_w < 1
     \/ (target_w * size[2]) \div size[1] < 1

\* lines 233-243: the logo scaled to wm_scale of the canvas width, its alpha
\* multiplied by wm_opacity, centred horizontally, 10% from the top
WatermarkLayer(c, fs) ==
  LET size == ImageSize(ContentAt(fs, c.wm_path))
      target_w == (c.target_w * c.wm_scale) \div 100
      target_h == (target_w * size[2]) \div size[1]
  IN [x |-> (c.target_w - target_w) \div 2, y |-> c.target_h \div 10,
      w |-> target_w, h |-> target_h, opacity |-> c.wm_opacity]

\* the watermark block without its try/except: the error leaves process_one
WatermarkStepUncaught(c, fs, canvas) ==
  IF ~WatermarkEntered(c, fs) THEN [raised |-> FALSE, canvas |-> canvas]
  ELSE IF WatermarkRaises(c, fs) THEN [raised |-> TRUE, canvas |-> canvas]
       ELSE [raised |-> FALSE, canvas |-> [canvas EXCEPT !.logo = WatermarkLayer(c, fs)]]

\* lines 231-246: the canvas changes at line 244 only; every exception of the
\* block is swallowed
WatermarkStep(c, fs, canvas) ==
  IF ~WatermarkEntered(c, fs) THEN [raised |-> FALSE, canvas |-> canvas]
  ELSE IF WatermarkRaises(c, fs) THEN [raised |-> FALSE, canvas |-> canvas]
       ELSE [raised |-> FALSE, canvas |-> [canvas EXCEPT !.logo = WatermarkLayer(c, fs)]]

\* the rembg step that goes on with the unprocessed image when rembg is absent
RembgStepSilent(use_rembg, have) ==
  IF use_rembg /\ have THEN "removed" ELSE "skipped"

\* lines 203-207: "error" is the RuntimeError
RembgStep(use_rembg, have) ==
  IF use_rembg THEN (IF ~have THEN "error" ELSE "removed") ELSE "skipped"

\* mc in generate_alt_text
FirstTwo(colors) == SubSeq(colors, 1, IF Len(colors) < 2 THEN Len(colors) ELSE 2)

\* generate_alt_text: the product, the first two colours and the wording
generate_alt_text(product, colors, bg_removed) ==
  [product |-> product, tones |-> FirstTwo(colors),
   background |-> IF bg_removed THEN "transparent or clean" ELSE "white studio"]

\* the first and the fourth of the eleven fixed tags of generate_tags
FixedTags == << <<"c", "u", "s", "t", "o", "m">>, <<"K", "M", "2">> >>

\* generate_tags
generate_tags(product, colors) == Dedup(<<product>> \o FixedTags \o colors)

JpgExt == <<".", "j", "p", "g">>
PngExt == <<".", "p", "n", "g">>

\* lines 248-251: the base name, by the mode the config selects
BaseName(c, conf, colors, t) ==
  IF conf.enable_ai_filenames
  THEN ai_build_filename(c.product_type, colors, conf.brand_keywords, t)
  ELSE build_filename(c.rename_template, c.product_type, colors, t)

\* lines 248-251 raise (KeyError of str.format)
NamingRaises(c, conf) == ~conf.enable_ai_filenames /\ FormatRaises(c.rename_template)

\* lines 254-256: whether the JPG is saved
SavesJpg(c) == TRUE

\* line 259: whether the PNG is saved
SavesPng(c, bg_removed) == bg_removed /\ c.export_png

NoInfo == [original |-> "none"]

Raised(e, written) ==
  [status |-> "error", err |-> e, info |-> NoInfo, writes |-> written, canvas |-> NoCanvas]

\* what the environment does to the writes of one call
IoOutcomes == {"ok", "jpg_fails", "png_fails"}

\* process_one(path, outdir, cfg) on the file system fs, with rembg present or
\* not (have), the module config conf, the clock reading t and the outcome io
\* of its writes.  writes: the files it left in outdir.
process_one(path, c, fs, have, conf, t, io) ==
  LET content == ContentAt(fs, path)
      rb == RembgStep(c.use_rembg, have)
      bg_removed == rb = "removed"
      colors == get_dominant_colors(content, bg_removed)
      size == ImageSize(content)
      wm == WatermarkStep(c, fs, compose(c, size))
      base_name == BaseName(c, conf, colors, t)
      jpg_name == base_name \o JpgExt
      png_name == base_name \o PngExt
      jpg == IF SavesJpg(c) THEN <<[name |-> jpg_name, kind |-> "jpg"]>> ELSE <<>>
      png == <<[name |-> png_name, kind |-> "png"]>>
  IN IF content \notin ImageContents THEN Raised("decode", <<>>)
     ELSE IF rb = "error" THEN Raised("rembg", <<>>)
     ELSE IF ThumbnailRaises(size, c.target_w - c.margin * 2, c.target_h - c.margin * 2)
          THEN Raised("compose", <<>>)
     ELSE IF wm.raised THEN Raised("watermark", <<>>)
     ELSE IF NamingRaises(c, conf) THEN Raised("naming", <<>>)
     ELSE IF SavesJpg(c) /\ io = "jpg_fails" THEN Raised("write", <<>>)
     ELSE IF SavesPng(c, bg_removed) /\ io = "png_fails" THEN Raised("write", jpg)
     ELSE [status |-> "ok", err |-> "none",
           info |-> [original |-> basename(path),
                     jpg |-> jpg_name,
                     png |-> IF SavesPng(c, bg_removed) THEN png_name ELSE <<>>,
                     alt_text |-> generate_alt_text(c.product_type, colors, bg_removed),
                     tags |-> generate_tags(c.product_type, colors),
                     colors |-> colors],
           writes |-> IF SavesPng(c, bg_removed) THEN jpg \o png ELSE jpg,
           canvas |-> wm.canvas]

(***************************************************************************)
(* _process_queue: the settings of the run.                                *)
(***************************************************************************)
DigitSet == {"0", "1", "2", "3", "4", "5", "6", "7", "8", "9"}

DigitValue(ch) == CHOOSE d \in 0..9 : DigitChars[d + 1] = ch

\* int(text) raises ValueError
IntRaises(text) == text = <<>> \/ \E k \in 1..Len(text) : text[k] \notin DigitSet

\* int(text), for a text of digits
RECURSIVE IntOf(_)
IntOf(text) ==
  IF text = <<>> THEN 0
  ELSE 10 * IntOf(SubSeq(text, 1, Len(text) - 1)) + DigitValue(text[Len(text)])

\* x or default
OrDefault(x, default) == IF x = <<>> THEN default ELSE x

\* str.strip(), for spaces
RECURSIVE StripSpaces(_)
StripSpaces(s) ==
  IF s # <<>> /\ Head(s) = " " THEN StripSpaces(Tail(s))
  ELSE IF s # <<>> /\ s[Len(s)] = " " THEN StripSpaces(SubSeq(s, 1, Len(s) - 1))
       ELSE s

DefaultSize == <<"1", "6", "0", "0">>
DefaultMargin == <<"6", "0">>
CustomHat == <<"c", "u", "s", "t", "o", "m", " ", "h", "a", "t">>

\* the Config(...) call raises: lines 550-570
SettingsRaise(g) ==
  \/ IntRaises(OrDefault(g.target_w, DefaultSize))
  \/ IntRaises(OrDefault(g.target_h, DefaultSize))
  \/ IntRaises(OrDefault(g.margin, DefaultMargin))

\* lines 541-545: the archive folder of the run
FinishedDir(g, list, outdir) ==
  IF g.finished_folder.dir # NoDir THEN g.finished_folder
  ELSE LET base_input == IF g.input_folder.dir # NoDir THEN g.input_folder
                         ELSE IF list # <<>> THEN dirname(list[1]) ELSE outdir
       IN joinDir(base_input, "Finished_Originals")

\* line 546: os.makedirs(fin_dir, exist_ok=True), in the default branch only
DirsAfterSetup(ds, g, fin_dir) ==
  IF g.finished_folder.dir # NoDir THEN ds ELSE ds \cup {fin_dir.dir}

\* lines 550-567
BuildConfig(g, fin_dir) ==
  [target_w |-> IntOf(OrDefault(g.target_w, DefaultSize)),
   target_h |-> IntOf(OrDefault(g.target_h, DefaultSize)),
   margin |-> IntOf(OrDefault(g.margin, DefaultMargin)),
   add_watermark |-> g.add_wm,
   wm_path |-> g.logo_path,
   wm_opacity |-> g.wm_opacity,
   wm_scale |-> g.wm_scale,
   product_type |-> OrDefault(StripSpaces(g.product_type), CustomHat),
   rename_template |-> OrDefault(g.rename_template, DefaultTemplate),
   add_shadow |-> g.add_shadow,
   use_rembg |-> g.use_rembg,
   export_jpg |-> g.export_jpg,
   export_png |-> g.export_png,
   move_originals |-> TRUE,
   finished_folder |-> fin_dir]

\* the header with the fifth column whenever PNG export is on
ManifestHeaderPngOnly(c) ==
  <<"original_name", "new_filename", "alt_text", "tags">>
    \o (IF c.export_png THEN <<"transparent_png">> ELSE <<>>)

\* lines 575-576
ManifestHeader(c) ==
  <<"original_name", "new_filename", "alt_text", "tags">>
    \o (IF c.use_rembg /\ c.export_png THEN <<"transparent_png">> ELSE <<>>)

\* lines 587-589
ManifestRow(info, c) ==
  <<info.original, info.jpg, info.alt_text, info.tags>>
    \o (IF c.use_rembg /\ c.export_png THEN <<info.png>> ELSE <<>>)

NoConfig == [target_w |-> 0]
NoManifest == [header |-> <<>>, rows |-> <<>>, open |-> FALSE]

\* _process_queue returns before the run: lines 533-539, 568-570
RunRejected ==
  /\ pc # "running"
  /\ ops < MaxOps
  /\ ops' = ops + 1
  /\ \/ /\ file_list = <<>>
        /\ dialog' = "No files"
        /\ dirs' = dirs
     \/ /\ file_list # <<>>
        /\ ~isdir(dirs, gui.output_folder)
        /\ dialog' = "Missing output"
        /\ dirs' = dirs
     \/ /\ file_list # <<>>
        /\ isdir(dirs, gui.output_folder)
        /\ SettingsRaise(gui)
        /\ dialog' = "Invalid settings"
        /\ dirs' = DirsAfterSetup(dirs, gui, FinishedDir(gui, file_list, gui.output_folder))
  /\ UNCHANGED <<file_list, pc, gui, cfg, runQueue, idx, ok, manifest, log, calls,
                 files, outfiles, now, have_rembg, config, slugFn, slugIn, slugOut>>

\* _process_queue up to the loop: lines 532-583
RunStarts ==
  /\ pc # "running"
  /\ ops < MaxOps
  /\ ops' = ops + 1
  /\ file_list # <<>>
  /\ isdir(dirs, gui.output_folder)
  /\ ~SettingsRaise(gui)
  /\ LET fin_dir == FinishedDir(gui, file_list, gui.output_folder)
         c == BuildConfig(gui, fin_dir)
     IN /\ dirs' = DirsAfterSetup(dirs, gui, fin_dir)
        /\ cfg' = c
        /\ manifest' = [header |-> ManifestHeader(c), rows |-> <<>>, open |-> TRUE]
        /\ log' = <<[kind |-> "processing", total |-> Len(file_list)]>>
                    \o (IF c.use_rembg /\ ~have_rembg
                        THEN <<[kind |-> "rembg_missing"]>> ELSE <<>>)
  /\ runQueue' = file_list
  /\ idx' = 0
  /\ ok' = 0
  /\ calls' = <<>>
  /\ pc' = "running"
  /\ outfiles' = {[f EXCEPT !.by = 0] : f \in outfiles}
  /\ UNCHANGED <<file_list, gui, files, now, have_rembg, config, dialog,
                 slugFn, slugIn, slugOut>>

(***************************************************************************)
(* _process_queue: the loop and the end of the run.                        *)
(***************************************************************************)
\* line 597: the move is attempted
ShouldMove(fpath, dest) == abspath(fpath) # abspath(dest)

\* shutil.move(fpath, dest) succeeds: the folder of dest exists and the
\* environment (permissions, locks) lets it, mv
MoveSucceeds(ds, dest, mv) == mv /\ dest.dir \in ds

\* the file system after shutil.move(src, dest): dest is replaced when it exists
MoveFile(fs, src, dest) ==
  [k \in (DOMAIN fs \ {FileKey(src)}) \cup {FileKey(dest)} |->
     IF k = FileKey(dest) THEN fs[FileKey(src)] ELSE fs[k]]

\* the output folder after item i left the files writes in it
WriteOut(out, writes, i) ==
  {f \in out : \A k \in 1..Len(writes) : writes[k].name # f.name}
    \cup {[name |-> writes[k].name, kind |-> writes[k].kind, by |-> i] : k \in 1..Len(writes)}

\* the counter incremented for every item attempted
OkCountsAttempts(okc, status, moveFailed) == okc + 1

\* the counter incremented after the move
OkAfterMove(okc, status, moveFailed) ==
  IF status = "ok" /\ ~moveFailed THEN okc + 1 ELSE okc

\* line 591: ok += 1, after the row and before the move
OkAfterItem(okc, status, moveFailed) == IF status = "ok" THEN okc + 1 ELSE okc

\* the loop without the except clause: the exception leaves the handler
ItemErrorPropagates == "aborted"

\* lines 603-604: the exception is logged and the loop goes on
AfterItemError == "running"

\* the queue cleared only after a run without failures
QueueKeptOnFailure(list, okc, total) == IF okc = total THEN <<>> ELSE list

\* line 607: self._clear_queue()
QueueAfterRun(list, okc, total) == <<>>

\* the lines one iteration logs: lines 592, 599, 601, 604
ItemLog(i, fpath, r, tries, moved, dest) ==
  IF r.status = "ok"
  THEN <<[kind |-> "ok", i |-> i, name |-> basename(fpath), jpg |-> r.info.jpg,
          png |-> r.info.png]>>
       \o (IF moved THEN <<[kind |-> "moved", i |-> i, dest |-> dest]>>
           ELSE IF tries THEN <<[kind |-> "move_failed", i |-> i]>>
           ELSE <<>>)
  ELSE <<[kind |-> "fail", i |-> i, name |-> basename(fpath), err |-> r.err]>>

\* one iteration of the loop: lines 584-604
ProcessItem ==
  /\ pc = "running"
  /\ idx < Len(runQueue)
  /\ \E io \in IoOutcomes, mv \in BOOLEAN :
       LET i == idx + 1
           fpath == runQueue[i]
           r == process_one(fpath, cfg, files, have_rembg, config, now, io)
           dest == join(cfg.finished_folder, basename(fpath))
           tries == r.status = "ok" /\ ShouldMove(fpath, dest)
           moved == tries /\ MoveSucceeds(dirs, dest, mv)
       IN /\ calls' = Append(calls, [path |-> fpath, at |-> now, status |-> r.status,
                                     err |-> r.err, info |-> r.info,
                                     content |-> ContentAt(files, fpath),
                                     canvas |-> r.canvas])
          /\ outfiles' = WriteOut(outfiles, r.writes, i)
          /\ manifest' = IF r.status = "ok"
                         THEN [manifest EXCEPT !.rows = Append(@, ManifestRow(r.info, cfg))]
                         ELSE manifest
          /\ ok' = OkAfterItem(ok, r.status, tries /\ ~moved)
          /\ files' = IF moved THEN MoveFile(files, fpath, dest) ELSE files
          /\ log' = log \o ItemLog(i, fpath, r, tries, moved, dest)
          /\ pc' = IF r.status = "ok" THEN "running" ELSE AfterItemError
          /\ idx' = i
  /\ UNCHANGED <<file_list, gui, cfg, runQueue, dirs, now, have_rembg, config,
                 dialog, ops, slugFn, slugIn, slugOut>>

\* after the loop: lines 606-608
FinishRun ==
  /\ pc = "running"
  /\ idx = Len(runQueue)
  /\ manifest' = [manifest EXCEPT !.open = FALSE]
  /\ log' = log \o <<[kind |-> "done", ok |-> ok, total |-> Len(runQueue)],
                     [kind |-> "cleared"]>>
  /\ file_list' = QueueAfterRun(file_list, ok, Len(runQueue))
  /\ dialog' = "Complete"
  /\ pc' = "done"
  /\ UNCHANGED <<gui, cfg, runQueue, idx, ok, calls, files, dirs, outfiles, now,
                 have_rembg, config, ops, slugFn, slugIn, slugOut>>

(***************************************************************************)
(* The session: settings chosen before the first operation, then the       *)
(* handlers in any order.                                                  *)
(***************************************************************************)
\* _init_vars, with the folders of the session as the configured defaults;
\* wm_opacity and wm_scale in hundredths
DefaultGui ==
  [product_type |-> CustomHat, rename_template |-> DefaultTemplate,
   target_w |-> DefaultSize, target_h |-> DefaultSize, margin |-> DefaultMargin,
   logo_path |-> NoPath, add_wm |-> TRUE, wm_opacity |-> 8, wm_scale |-> 40,
   add_shadow |-> TRUE, use_rembg |-> TRUE, export_jpg |-> TRUE, export_png |-> FALSE,
   finished_folder |-> Folder(NoDir, FALSE),
   output_folder |-> Folder(OutDir, FALSE),
   input_folder |-> Folder(InDir, FALSE)]

\* the settings the user may have entered
MainGuis ==
  { [DefaultGui EXCEPT !.use_rembg = r, !.export_jpg = j, !.export_png = p,
                       !.finished_folder = f] :
      r \in BOOLEAN, j \in BOOLEAN, p \in BOOLEAN,
      f \in {Folder(NoDir, FALSE), Folder(FinDir, FALSE), Folder(NewDir, FALSE)} }
  \cup { [DefaultGui EXCEPT !.target_w = <<"a", "b", "c">>],
         [DefaultGui EXCEPT !.output_folder = Folder(NoDir, FALSE)],
         [DefaultGui EXCEPT !.output_folder = Folder(NewDir, FALSE)] }

\* load_config() without a config file
NoAiConfig == [enable_ai_filenames |-> FALSE, brand_keywords |-> <<>>]

InitWith(guis, haves, confs, texts) ==
  /\ file_list = <<>>
  /\ pc = "idle"
  /\ gui \in guis
  /\ cfg = NoConfig
  /\ runQueue = <<>>
  /\ idx = 0
  /\ ok = 0
  /\ manifest = NoManifest
  /\ log = <<>>
  /\ calls = <<>>
  /\ files = InitialFiles
  /\ dirs = InitialDirs
  /\ outfiles = {}
  /\ now = 59
  /\ have_rembg \in haves
  /\ config \in confs
  /\ dialog = "none"
  /\ ops = 0
  /\ slugFn = "none"
  /\ slugIn \in texts
  /\ slugOut = <<>>

Init == InitWith(MainGuis, BOOLEAN, {NoAiConfig}, {<<>>})

Next ==
  \/ \E p \in PickablePaths : AddFilePath(p)
  \/ \E d \in PickableFolders : AddFolder(d)
  \/ ClearQueue
  \/ RunRejected
  \/ RunStarts
  \/ ProcessItem
  \/ FinishRun

Spec == Init /\ [][Next]_vars

\* the handler _process_queue runs to completion once it was entered: the
\* loop and the code after it are not waiting for anything
\* (weak fairness of the loop step and of the end of the run, WF_vars, with
\* ENABLED written out: one of the two is enabled exactly when pc = "running")
RunFairness ==
  []<>(pc # "running") \/ []<><<ProcessItem \/ FinishRun>>_vars

FairSpec == Spec /\ RunFairness

(***************************************************************************)
(* The naming of a run against the clock: the same handlers, with the      *)
(* clock advancing between the items of a run.                             *)
(***************************************************************************)
\* the clock passes to the next second while a run is under way
Tick ==
  /\ pc = "running"
  /\ now - 59 < MaxTicks
  /\ now' = now + 1
  /\ UNCHANGED <<file_list, pc, gui, cfg, runQueue, idx, ok, manifest, log, calls,
                 files, dirs, outfiles, have_rembg, config, dialog, ops,
                 slugFn, slugIn, slugOut>>

\* rename templates the user may have entered
NameTemplates ==
  { DefaultTemplate,
    <<"{product}", "-", "{timestamp}">>,
    <<"{product}", "-", "{colors}">>,
    <<"{timestamp}", "_", "{colors}">>,
    <<"{product}", "-", UnknownField, "-", "{timestamp}">> }

NameGuis == { [DefaultGui EXCEPT !.use_rembg = FALSE, !.rename_template = t] : t \in NameTemplates }

\* a config file that turns the heuristic names on
AiConfig == [enable_ai_filenames |-> TRUE, brand_keywords |-> << <<"K", "M", "2">> >>]

\* images the user picks: two with the same colours, one with others
NamePaths ==
  { FilePath(InDir, "a", "jpg", FALSE), FilePath(InDir, "b", "jpg", FALSE),
    FilePath(FinDir, "a", "jpg", TRUE) }

NameInit == InitWith(NameGuis, {TRUE}, {NoAiConfig, AiConfig}, {<<>>})

NameNext ==
  \/ \E p \in NamePaths : AddFilePath(p)
  \/ RunStarts
  \/ ProcessItem
  \/ FinishRun
  \/ Tick

NameSpec == NameInit /\ [][NameNext]_vars

(***************************************************************************)
(* Slugification applied to a text, and again to its result.               *)
(***************************************************************************)
SlugAlphabet == {"a", "A", "-", "_", " ", "!"}

SlugInputs == UNION { [1..n -> SlugAlphabet] : n \in 0..MaxLen }

SlugOf(fn, text) == IF fn = "sanitize_slug" THEN sanitize_slug(text) ELSE seo_slug(text)

\* the slug of the input text
ApplySlug(fn) ==
  /\ slugFn = "none"
  /\ slugFn' = fn
  /\ slugOut' = <<SlugOf(fn, slugIn)>>
  /\ UNCHANGED <<file_list, pc, gui, cfg, runQueue, idx, ok, manifest, log, calls,
                 files, dirs, outfiles, now, have_rembg, config, dialog, ops, slugIn>>

\* the slug of the slug
ReapplySlug ==
  /\ slugFn # "none"
  /\ Len(slugOut) = 1
  /\ slugOut' = Append(slugOut, SlugOf(slugFn, slugOut[1]))
  /\ UNCHANGED <<file_list, pc, gui, cfg, runQueue, idx, ok, manifest, log, calls,
                 files, dirs, outfiles, now, have_rembg, config, dialog, ops,
                 slugFn, slugIn>>

SlugInit == InitWith({DefaultGui}, {TRUE}, {NoAiConfig}, SlugInputs)

SlugNext ==
  \/ ApplySlug("sanitize_slug")
  \/ ApplySlug("seo_slug")
  \/ ReapplySlug

SlugSpec == SlugInit /\ [][SlugNext]_vars

(***************************************************************************)
(* The naming of a run against the texts the user entered: the product     *)
(* type of the settings panel and the brand keywords of the config file.   *)
(***************************************************************************)
ProductAlphabet == {"a", "B", "-", "_", " ", "!"}

\* product types the user may have typed
ProductTexts == UNION { [1..n -> ProductAlphabet] : n \in 0..MaxProduct }

\* templates that are one field: the file name is the text substituted
ProductOnly == <<"{product}">>
ColorsOnly == <<"{colors}">>

TemplateGuis ==
  { [DefaultGui EXCEPT !.use_rembg = FALSE, !.rename_template = ProductOnly,
                       !.product_type = p] : p \in ProductTexts }
  \cup { [DefaultGui EXCEPT !.use_rembg = FALSE, !.rename_template = ColorsOnly] }

\* product types for the heuristic names: capitals, spaces and punctuation
HeuristicAlphabet == {"B", " ", "!"}

HeuristicProducts == UNION { [1..n -> HeuristicAlphabet] : n \in 0..MaxProduct }

HeuristicGuis ==
  { [DefaultGui EXCEPT !.use_rembg = FALSE, !.product_type = p] : p \in HeuristicProducts }

\* brand_keywords of the config file: none; one; a blank one and two that
\* slugify to the same; a punctuation-only one before four others; five
KeywordLists ==
  { <<>>,
    << <<"K", "M", "2">> >>,
    << <<"K", "M", "2">>, <<" ">>, <<"k", "m", "2", "!">>, <<"H", "a", "t">> >>,
    << <<"!">>, <<"a">>, <<"b">>, <<"c">>, <<"d">> >>,
    << <<"a">>, <<"b">>, <<"c">>, <<"d">>, <<"e">> >> }

HeuristicConfigs == { [enable_ai_filenames |-> TRUE, brand_keywords |-> k] : k \in KeywordLists }

\* images the user picks: one colour, two colours
TextPaths == { FilePath(InDir, "a", "jpg", FALSE), FilePath(InDir, "b", "jpg", FALSE) }

TextInit ==
  \/ InitWith(TemplateGuis, {TRUE}, {NoAiConfig}, {<<>>})
  \/ InitWith(HeuristicGuis, {TRUE}, HeuristicConfigs, {<<>>})

TextNext ==
  \/ \E p \in TextPaths : AddFilePath(p)
  \/ RunStarts
  \/ ProcessItem
  \/ FinishRun

TextSpec == TextInit /\ [][TextNext]_vars

(***************************************************************************)
(* The composition of a run against the canvas settings and the watermark  *)
(* settings the user entered.                                              *)
(***************************************************************************)
\* canvas widths, heights and margins the user may have typed: each with
\* 2*margin < min(width, height)
CanvasWidths == { <<"2", "0">>, <<"3", "0">> }
CanvasHeights == { <<"3", "0">>, <<"9">> }
CanvasMargins == { <<"0">>, <<"2">>, <<"4">> }

\* the logo paths the user may have chosen: none, a logo, a file that is no
\* image, a file that does not exist
LogoPaths ==
  { NoPath, FilePath(ArtDir, "logo", "png", FALSE), FilePath(ArtDir, "bad", "png", FALSE),
    FilePath(ArtDir, "gone", "png", FALSE) }

ComposeGuis ==
  { [DefaultGui EXCEPT !.use_rembg = FALSE, !.add_wm = FALSE, !.target_w = w,
                       !.target_h = h, !.margin = m, !.add_shadow = sh] :
      w \in CanvasWidths, h \in CanvasHeights, m \in CanvasMargins, sh \in BOOLEAN }

WatermarkGuis ==
  { [DefaultGui EXCEPT !.use_rembg = FALSE, !.add_shadow = FALSE, !.target_w = w,
                       !.target_h = <<"3", "0">>, !.margin = <<"2">>,
                       !.add_wm = on, !.logo_path = l, !.wm_scale = sc] :
      w \in CanvasWidths, on \in BOOLEAN, l \in LogoPaths, sc \in {40, 4} }

\* images the user picks: a wide one, a tall one, a small one
ComposePaths ==
  { FilePath(InDir, "a", "jpg", FALSE), FilePath(InDir, "b", "jpg", FALSE),
    FilePath(FinDir, "a", "jpg", TRUE) }

ComposeInit == InitWith(ComposeGuis \cup WatermarkGuis, {TRUE}, {NoAiConfig}, {<<>>})

ComposeNext ==
  \/ \E p \in ComposePaths : AddFilePath(p)
  \/ RunStarts
  \/ ProcessItem
  \/ FinishRun

ComposeSpec == ComposeInit /\ [][ComposeNext]_vars

(***************************************************************************)
(* Claims about the queue run.                                             *)
(***************************************************************************)
InRun == pc \in {"running", "done", "aborted"}

\* the positions of the successful calls, in call order
RECURSIVE OkPositions(_)
OkPositions(cs) ==
  IF cs = <<>> THEN <<>>
  ELSE LET front == OkPositions(SubSeq(cs, 1, Len(cs) - 1))
       IN IF cs[Len(cs)].status = "ok" THEN Append(front, Len(cs)) ELSE front

LogEntries(kinds) == {k \in 1..Len(log) : log[k].kind \in kinds}

\* the lines the step appended to the log
NewLogEntries == {k \in (Len(log) + 1)..Len(log') : k > Len(log)}

\* the calls made so far are the first paths of the queue of the run, in order
CallsFollowQueue ==
  InRun =>
    /\ Len(calls) = idx
    /\ idx <= Len(runQueue)
    /\ \A k \in 1..Len(calls) : calls[k].path = runQueue[k]
    /\ (pc = "running" => file_list = runQueue)
    /\ (pc # "running" => Len(calls) = Len(runQueue))

\* C1: in a run, process_one is called once for every path of the queue as it
\* was when the run started, in queue order, whatever the earlier calls
\* raised; a run that is over has attempted every item, and every run that
\* started reaches its end.
C1_EveryItemAttempted ==
  /\ []CallsFollowQueue
  /\ \A n \in 1..(MaxQueue + 1) :
       (pc = "running" /\ Len(runQueue) = n) ~> (pc = "done" /\ Len(calls) = n)

\* a finished run of three items in which an item failed and the next succeeded
C1_Witness ==
  /\ pc = "done"
  /\ Len(runQueue) = 3
  /\ \E k \in 1..2 : calls[k].status = "error" /\ calls[k + 1].status = "ok"

\* C2: the data rows of the manifest are the successful items, one row each,
\* in queue order, and the success count (the counter, and the count the
\* "Done" line reports) is the number of data rows.
C2_RowsAreSuccesses ==
  InRun =>
    LET won == OkPositions(calls)
    IN /\ Len(manifest.rows) = Len(won)
       /\ \A j \in 1..Len(won) :
            /\ manifest.rows[j][1] = basename(runQueue[won[j]])
            /\ manifest.rows[j][2] = calls[won[j]].info.jpg
       /\ ok = Len(manifest.rows)
       /\ \A k \in LogEntries({"done"}) :
            log[k].ok = Len(manifest.rows) /\ log[k].total = Len(runQueue)

\* a queue of three whose second item failed: two rows, for items 1 and 3
C2_Witness ==
  /\ pc = "done"
  /\ Len(runQueue) = 3
  /\ calls[1].status = "ok" /\ calls[2].status = "error" /\ calls[3].status = "ok"
  /\ Len(manifest.rows) = 2
  /\ ok = 2

\* C3: a step changes the file system or attempts a move only as the
\* iteration of an item that succeeded: its row is written in the same
\* iteration, its success line precedes the move line, the source and the
\* destination are different files, and nothing but that one file moves.
C3_MoveOnlyAfterOwnSuccess ==
  [][LET i == idx + 1
         attempt == \E k \in NewLogEntries : log'[k].kind \in {"moved", "move_failed"}
     IN /\ (files' # files => attempt)
        /\ (attempt =>
              LET src == runQueue[i]
                  dest == join(cfg.finished_folder, basename(src))
              IN /\ pc = "running" /\ idx' = i
                 /\ calls'[i].status = "ok"
                 /\ Len(manifest'.rows) = Len(manifest.rows) + 1
                 /\ manifest'.rows[Len(manifest'.rows)][1] = basename(src)
                 /\ log'[Len(log) + 1].kind = "ok" /\ log'[Len(log) + 1].i = i
                 /\ FileKey(src) # FileKey(dest)
                 /\ files' \in {files, MoveFile(files, src, dest)})
        /\ (pc = "running" /\ idx' = i /\ calls'[i].status = "error"
              => files' = files /\ ~attempt)]_vars

\* a finished run in which one original was moved and a failed item's file
\* is where it was
C3_Witness ==
  /\ pc = "done"
  /\ LogEntries({"moved"}) # {}
  /\ \E k \in 1..Len(calls) :
       /\ calls[k].status = "error"
       /\ ContentAt(files, runQueue[k]) = ContentAt(InitialFiles, runQueue[k])
       /\ ContentAt(files, runQueue[k]) # "none"

\* C4: an iteration whose move failed still counts its item: the row is
\* written, the counter is incremented, the original stays in place, the only
\* trace is the "couldn't move" line, and the loop goes on.
C4_MoveFailureKeepsSuccess ==
  [][(\E k \in NewLogEntries : log'[k].kind = "move_failed") =>
       LET i == idx + 1
       IN /\ calls'[i].status = "ok"
          /\ Len(manifest'.rows) = Len(manifest.rows) + 1
          /\ manifest'.rows[Len(manifest'.rows)][1] = basename(runQueue[i])
          /\ ok' = ok + 1
          /\ files' = files
          /\ ContentAt(files', runQueue[i]) \in ImageContents
          /\ \A k \in NewLogEntries : log'[k].kind \in {"ok", "move_failed"}
          /\ pc' = "running"
          /\ idx' = i]_vars

\* a finished run in which a move failed and the next item was still processed
C4_Witness ==
  /\ pc = "done"
  /\ \E k \in LogEntries({"move_failed"}) :
       /\ log[k].i < Len(runQueue)
       /\ calls[log[k].i + 1].status = "ok"
       /\ ContentAt(files, runQueue[log[k].i]) \in ImageContents
  /\ ok = Len(manifest.rows)

Rejections == {"No files", "Missing output", "Invalid settings"}

\* C5: the loop leaves the queue as it is; the step that ends the run clears
\* it, after the last item and with the manifest closed, whatever the number
\* of failures; a request rejected up front leaves it as it is.
C5_QueueClearedAtEnd ==
  [][/\ (pc = "running" /\ pc' = "running" => file_list' = file_list)
     /\ (pc = "running" /\ pc' # "running" =>
           /\ idx = Len(runQueue)
           /\ ~manifest'.open
           /\ file_list' = <<>>)
     /\ (dialog' # dialog /\ dialog' \in Rejections =>
           file_list' = file_list /\ pc' = pc)]_vars

\* a finished run with a success and a failure, and the queue empty
C5_Witness ==
  /\ pc = "done"
  /\ file_list = <<>>
  /\ ok >= 1
  /\ ok < Len(runQueue)

HasPngFile == \E f \in outfiles : f.kind = "png"

\* C6: the header has the column transparent_png, and every data row a fifth
\* field, exactly when background removal and PNG export are both on; an
\* item's record names a PNG, and that PNG is in the output folder, exactly
\* when its background was removed and PNG export is on.
C6_PngColumnAndFile ==
  InRun =>
    LET both == cfg.use_rembg /\ cfg.export_png
    IN /\ (Len(manifest.header) = 5) = both
       /\ (Len(manifest.header) = 5 => manifest.header[5] = "transparent_png")
       /\ Len(manifest.header) \in {4, 5}
       /\ \A j \in 1..Len(manifest.rows) : (Len(manifest.rows[j]) = 5) = both
       /\ \A k \in 1..Len(calls) :
            calls[k].status = "ok" =>
              LET removed == calls[k].info.alt_text.background = "transparent or clean"
              IN /\ (calls[k].info.png # <<>>) = (removed /\ cfg.export_png)
                 /\ (\E f \in outfiles : f.kind = "png" /\ f.name = calls[k].info.png)
                      = (removed /\ cfg.export_png)
       /\ (~both => ~HasPngFile)

\* background removal off, PNG export on, an item processed
C6_Witness ==
  /\ pc = "done"
  /\ ~cfg.use_rembg
  /\ cfg.export_png
  /\ ok >= 1
  /\ Len(manifest.header) = 4
  /\ ~HasPngFile

\* C7: with background removal on and rembg absent every call of process_one
\* raises: nothing is written, no record is returned, no row is added, no
\* original is moved.
C7_RembgAbsentFails ==
  (gui.use_rembg /\ ~have_rembg) =>
    /\ outfiles = {}
    /\ files = InitialFiles
    /\ manifest.rows = <<>>
    /\ ok = 0
    /\ \A k \in 1..Len(calls) : calls[k].status = "error" /\ calls[k].info = NoInfo
    /\ LogEntries({"ok", "moved", "move_failed"}) = {}
    /\ \A k \in LogEntries({"fail"}) :
         ContentAt(files, runQueue[log[k].i]) \in ImageContents => log[k].err = "rembg"

\* a finished run in which an image failed for the absence of rembg
C7_Witness ==
  /\ pc = "done"
  /\ cfg.use_rembg
  /\ ~have_rembg
  /\ \E k \in LogEntries({"fail"}) : log[k].err = "rembg"

\* C8: a JPG is in the output folder only if JPG export is on.
C8_JpgOnlyIfExportEnabled ==
  \A f \in outfiles : f.kind = "jpg" => gui.export_jpg

(***************************************************************************)
(* Claims about names.                                                     *)
(***************************************************************************)
InTemplate(field) ==
  \E k \in 1..Len(cfg.rename_template) : cfg.rename_template[k] = field

NamesHaveTimestamp == config.enable_ai_filenames \/ InTemplate("{timestamp}")
NamesHaveColors == config.enable_ai_filenames \/ InTemplate("{colors}")

\* the timestamp unit of a clock reading: the minute in heuristic mode, the
\* second in template mode
UnitOf(t) == IF config.enable_ai_filenames THEN t \div 60 ELSE t

\* two successful items of the run, the first before the second
OkPairs ==
  { <<a, b>> \in (1..Len(calls)) \X (1..Len(calls)) :
      a < b /\ calls[a].status = "ok" /\ calls[b].status = "ok" }

\* the row of the successful item at position k of the queue
RowOfItem(k) == manifest.rows[Len(OkPositions(SubSeq(calls, 1, k)))]

\* when two items of the run have the same JPG name, the one file of that name
\* was written by an item after the first, and both rows are in the manifest
CollisionOverwrites ==
  \A pr \in OkPairs :
    calls[pr[1]].info.jpg = calls[pr[2]].info.jpg =>
      /\ \A f \in outfiles : f.name = calls[pr[1]].info.jpg => f.by >= pr[2]
      /\ \E f \in outfiles : f.name = calls[pr[1]].info.jpg
      /\ RowOfItem(pr[1])[2] = calls[pr[1]].info.jpg
      /\ RowOfItem(pr[2])[2] = calls[pr[2]].info.jpg
      /\ RowOfItem(pr[1])[1] = basename(runQueue[pr[1]])
      /\ RowOfItem(pr[2])[1] = basename(runQueue[pr[2]])
      /\ Len(manifest.rows) = Len(OkPositions(calls))

\* C9 as stated: with the timestamp in the names, equal names only in the same
\* timestamp unit and with the same colour list; different units give
\* different names; a collision overwrites and keeps both rows.
C9_SameNameOnlySameUnitAndColours ==
  (InRun /\ NamesHaveTimestamp) =>
    /\ \A pr \in OkPairs :
         /\ calls[pr[1]].info.jpg = calls[pr[2]].info.jpg =>
              /\ UnitOf(calls[pr[1]].at) = UnitOf(calls[pr[2]].at)
              /\ calls[pr[1]].info.colors = calls[pr[2]].info.colors
         /\ UnitOf(calls[pr[1]].at) # UnitOf(calls[pr[2]].at) =>
              calls[pr[1]].info.jpg # calls[pr[2]].info.jpg
    /\ CollisionOverwrites

\* C9 (amended): with the timestamp in the names, equal names only in the same
\* timestamp unit, and with the same colour list when the names also have the
\* colours (heuristic mode, or a template with the field colors); different
\* units give different names; a collision overwrites and keeps both rows.
C9_SameNameOnlySameUnit ==
  (InRun /\ NamesHaveTimestamp) =>
    /\ \A pr \in OkPairs :
         /\ calls[pr[1]].info.jpg = calls[pr[2]].info.jpg =>
              /\ UnitOf(calls[pr[1]].at) = UnitOf(calls[pr[2]].at)
              /\ (NamesHaveColors =>
                    calls[pr[1]].info.colors = calls[pr[2]].info.colors)
         /\ UnitOf(calls[pr[1]].at) # UnitOf(calls[pr[2]].at) =>
              calls[pr[1]].info.jpg # calls[pr[2]].info.jpg
    /\ CollisionOverwrites

\* a finished run, timestamp in the names, in which two items named in the
\* same unit got the same name, and the file is the later item's
C9_Witness ==
  /\ pc = "done"
  /\ NamesHaveTimestamp
  /\ \E pr \in OkPairs :
       /\ calls[pr[1]].info.jpg = calls[pr[2]].info.jpg
       /\ \E f \in outfiles : f.name = calls[pr[1]].info.jpg /\ f.by = pr[2]
       /\ Len(manifest.rows) >= 2

\* C10: slugifying a slug gives the slug, for sanitize_slug and for _seo_slug.
C10_SlugIdempotent ==
  Len(slugOut) = 2 => slugOut[2] = slugOut[1]

\* a text of hyphens and punctuation only, slugified twice by sanitize_slug
C10_Witness ==
  /\ Len(slugOut) = 2
  /\ slugFn = "sanitize_slug"
  /\ slugIn # <<>>
  /\ \A k \in 1..Len(slugIn) : slugIn[k] \in {"-", "!"}
  /\ slugOut[1] = ImageWord

\* the characters of a text
CharsOf(text) == {text[k] : k \in 1..Len(text)}

\* a file name without its four-character extension
Stem(name) == SubSeq(name, 1, Len(name) - 4)

OkCalls == {k \in 1..Len(calls) : calls[k].status = "ok"}

\* C11 as stated: in template mode the text substituted for the field product
\* and the text substituted for the field colors have only a-z, 0-9 and the
\* hyphen; in heuristic mode the file name has no whitespace.
C11_SegmentsAlnumHyphen ==
  \A k \in OkCalls :
    /\ (~config.enable_ai_filenames /\ cfg.rename_template \in {ProductOnly, ColorsOnly}
          => CharsOf(Stem(calls[k].info.jpg)) \subseteq LowerAlnum \cup {"-"})
    /\ (config.enable_ai_filenames => " " \notin CharsOf(calls[k].info.jpg))

\* C11 (amended): in template mode the text substituted for the field product
\* has only a-z, 0-9, the hyphen and the underscore, the text substituted for
\* the field colors only a-z, 0-9 and the hyphen; in heuristic mode the file
\* name has no whitespace.
C11_SegmentsSlugChars ==
  \A k \in OkCalls :
    /\ (~config.enable_ai_filenames /\ cfg.rename_template = ProductOnly
          => CharsOf(Stem(calls[k].info.jpg)) \subseteq LowerAlnum \cup {"-", "_"})
    /\ (~config.enable_ai_filenames /\ cfg.rename_template = ColorsOnly
          => CharsOf(Stem(calls[k].info.jpg)) \subseteq LowerAlnum \cup {"-"})
    /\ (config.enable_ai_filenames => " " \notin CharsOf(calls[k].info.jpg))

\* a product type with a capital and an underscore, substituted lower-cased
\* with the underscore kept
C11_Witness ==
  /\ pc = "done"
  /\ ~config.enable_ai_filenames
  /\ cfg.rename_template = ProductOnly
  /\ gui.product_type = <<"B", "_">>
  /\ \E k \in OkCalls : Stem(calls[k].info.jpg) = <<"b", "_">>

\* the slugs of all the keywords, in order
RECURSIVE SlugsOf(_)
SlugsOf(kws) ==
  IF kws = <<>> THEN <<>> ELSE <<seo_slug(Head(kws))>> \o SlugsOf(Tail(kws))

\* the first n elements of a list
FirstN(list, n) == SubSeq(list, 1, IF Len(list) < n THEN Len(list) ELSE n)

\* the heuristic name as C12 states it: the first four of the non-empty,
\* deduplicated keyword slugs, the product slug, the colour slug and the
\* timestamp, the empty ones left out
StatedHeuristicName(product_type, colors, brand_keywords, t) ==
  LET kw == FirstN(Dedup(NonEmpty(SlugsOf(brand_keywords))), 4)
      parts == kw \o <<seo_slug(product_type), seo_slug(Join(colors, <<"-">>))>>
  IN Join(NonEmpty(parts \o <<ai_stamp(t)>>), <<"-">>)

\* C12: in heuristic mode the file name of every processed item is the
\* hyphen-join of at most four deduplicated keyword slugs, the product slug,
\* the colour slug and the timestamp, empty segments left out and a keyword
\* with an empty slug not counted among the four.
C12_HeuristicNameAsStated ==
  config.enable_ai_filenames =>
    \A k \in OkCalls :
      Stem(calls[k].info.jpg) =
        StatedHeuristicName(cfg.product_type, calls[k].info.colors,
                            config.brand_keywords, calls[k].at)

(***************************************************************************)
(* Claims about the canvas.                                                *)
(***************************************************************************)
Min(a, b) == IF a < b THEN a ELSE b

\* the subject is within the available area, centred both ways, with the
\* margin free on every side
SubjectCentredInMargins(cv, m) ==
  LET s == cv.subject
  IN /\ s.w <= cv.w - 2 * m
     /\ s.h <= cv.h - 2 * m
     /\ s.x = (cv.w - s.w) \div 2
     /\ s.y = (cv.h - s.h) \div 2
     /\ s.x >= m
     /\ s.y >= m
     /\ cv.w - (s.x + s.w) >= m
     /\ cv.h - (s.y + s.h) >= m

\* C13: with 2*margin < min(width, height), shadow on or off, the subject of
\* every processed item is at most the available area, centred horizontally
\* and vertically with the margin free on all four sides; the downward offset
\* is in the position of the shadow layer only.
C13_SubjectCentredInMargins ==
  \A k \in OkCalls :
    2 * cfg.margin < Min(cfg.target_w, cfg.target_h) =>
      /\ SubjectCentredInMargins(calls[k].canvas, cfg.margin)
      /\ (cfg.add_shadow =>
            calls[k].canvas.shadow.y =
              (cfg.target_h - calls[k].canvas.subject.h) \div 2
                + (calls[k].canvas.subject.h * 8) \div 100)

\* the watermark of the run cannot be put on: no path, no such file, or the
\* file cannot be loaded, or scaled to the canvas
WatermarkUnusable ==
  \/ cfg.wm_path = NoPath
  \/ ContentAt(files, cfg.wm_path) # "logo"
  \/ (cfg.target_w * cfg.wm_scale) \div 100 < 1
  \/ (((cfg.target_w * cfg.wm_scale) \div 100) * ImageSize("logo")[2])
        \div ImageSize("logo")[1] < 1

\* C14: the canvas of an item has the logo layer only if watermarking is on,
\* a path is set and the file is a readable image; with the path unset, the
\* file missing or the loading or scaling failing, no item fails for the
\* watermark and the canvas of every processed item is the canvas composed
\* without watermark.
C14_WatermarkOnlyWhenReadable ==
  InRun =>
    \A k \in 1..Len(calls) :
      /\ (calls[k].status = "ok" /\ calls[k].canvas.logo # NoLogo =>
            /\ cfg.add_watermark
            /\ cfg.wm_path # NoPath
            /\ ContentAt(files, cfg.wm_path) = "logo")
      /\ (WatermarkUnusable \/ ~cfg.add_watermark =>
            /\ calls[k].err \in {"none", "decode", "write"}
            /\ (calls[k].status = "ok" =>
                  calls[k].canvas = compose(cfg, ImageSize(calls[k].content))))

\* a finished run with watermarking on and a logo file that is no image: the
\* item was processed and its canvas has no logo
C14_Witness ==
  /\ pc = "done"
  /\ cfg.add_watermark
  /\ cfg.wm_path = FilePath(ArtDir, "bad", "png", FALSE)
  /\ \E k \in OkCalls : calls[k].canvas.logo = NoLogo

(***************************************************************************)
(* Claims about the queue and the archive.                                 *)
(***************************************************************************)
\* C15: while a run moves originals, and after it, the archive folder of the
\* run exists, be it the default folder or a folder the user configured.
C15_ArchiveFolderExists ==
  InRun => isdir(dirs, cfg.finished_folder)

\* C16: no two entries of the pending queue denote the same absolute path,
\* and no run calls process_one twice for the same file.
C16_QueueHasNoDuplicateFile ==
  /\ \A i \in 1..Len(file_list) : \A j \in 1..Len(file_list) :
       i < j => abspath(file_list[i]) # abspath(file_list[j])
  /\ \A i \in 1..Len(calls) : \A j \in 1..Len(calls) :
       i < j => FileKey(calls[i].path) # FileKey(calls[j].path)

\* C17: after a run every original that was moved is in the archive folder
\* under its base name with its content, and every file that was in the
\* archive folder before is there with its content.
C17_ArchiveKeepsOriginals ==
  /\ pc = "done" =>
       \A k \in LogEntries({"moved"}) :
         /\ log[k].dest = join(cfg.finished_folder, basename(runQueue[log[k].i]))
         /\ ContentAt(files, log[k].dest) = calls[log[k].i].content
  /\ InRun =>
       \A f \in DOMAIN InitialFiles :
         f.dir = cfg.finished_folder.dir => ContentAt(files, f) = InitialFiles[f]

====
